---- MODULE Spec2Model ----
(***************************************************************************)
(* Keyset-cursor helpers of src/server/utils/pagination-helpers.ts:        *)
(* parseSortString, parseCursor and getCursor, and a caller that pages     *)
(* through a table with them.                                              *)
(*                                                                         *)
(* JavaScript strings are sequences of one-character strings, so that      *)
(* split, trim, toUpperCase and Number are computed character by           *)
(* character.  JavaScript values that may be undefined, NaN, a number or a *)
(* string are tagged records (Undefined, NaN, Num(n), Str(s)).             *)
(***************************************************************************)
EXTENDS Integers, Sequences, FiniteSets, TLC

VARIABLES
    clauses,      \* the sort clauses the request's sort string is written from
    sortString,   \* getCursor's first argument
    cursor,       \* getCursor's second argument
    sortFields,   \* parseSortString(sortString), once getCursor has run
    cursors,      \* parseCursor(sortFields, cursor), when getCursor called it
    where,        \* the predicate getCursor returned
    prop,         \* the sort-key expression getCursor returned
    pc,           \* "call": getCursor not yet run; "return": it has returned
    table,        \* the rows of the listing being paged through
    limit,        \* the page size of the paging caller
    visited,      \* the rows the paging caller has been handed, in order
    page,         \* the page number of an offset-paginated request
    data,         \* the { count, items } the fetch of that request returned
    pagination,   \* what getPagination(limit, page) returned
    pagingData,   \* what getPagingData(data, limit, page) returned
    pagedData,    \* what getPagedData({page, limit}, fn) passed to fn and returned
    query,        \* req.query of the request
    links,        \* what getPaginationLinks returned
    images,       \* the ids of the loaded images of the image detail, in order
    imageId,      \* the id of the image the image detail shows
    navLog,       \* the last calls of next() and previous(), oldest first
    mutations,    \* the toggle-mute mutations of the user page
    muted,        \* the muted flag of the cached creator record
    mutedBefore   \* that flag before the first toggle

keysetVars == <<clauses, sortString, cursor, sortFields, cursors, where, prop,
                table, visited>>

offsetVars == <<page, data, pagination, pagingData, pagedData, query, links>>

navVars == <<images, imageId, navLog>>

muteVars == <<mutations, muted, mutedBefore>>

vars == <<keysetVars, pc, limit, offsetVars, navVars, muteVars>>

---------------------------------------------------------------------------
(* Bounds of the model. *)

\* sort fields per sort specification
MaxFields == 2
\* row and cursor values range over 0..MaxVal
MaxVal == 2
\* rows in the paged table
MaxRows == 3
\* page sizes range over 1..MaxLimit
MaxLimit == 2

---------------------------------------------------------------------------
(* JavaScript values. *)

Undefined == [t |-> "undefined"]
NaN == [t |-> "NaN"]
Num(n) == [t |-> "number", n |-> n]
Str(s) == [t |-> "string", s |-> s]

\* if (cursor): undefined, 0, NaN and "" are falsy
Truthy(v) ==
    CASE v.t = "undefined" -> FALSE
      [] v.t = "NaN"       -> FALSE
      [] v.t = "number"    -> v.n # 0
      [] v.t = "string"    -> v.s # <<>>

\* the result of a function that has not been called
NotCalled == [t |-> "not called"]

\* no offset-paginated request is being served
OffsetIdle ==
    /\ page = Undefined
    /\ data = [count |-> Undefined, items |-> <<>>]
    /\ pagination = NotCalled
    /\ pagingData = NotCalled
    /\ pagedData = NotCalled
    /\ query = <<>>
    /\ links = NotCalled

\* no image detail is open
NavIdle ==
    /\ images = <<>>
    /\ imageId = 0
    /\ navLog = <<>>

\* the user page is not open
MuteIdle ==
    /\ mutations = <<>>
    /\ muted = FALSE
    /\ mutedBefore = FALSE

---------------------------------------------------------------------------
(* String primitives used by the helpers. *)

ASC == <<"A", "S", "C">>
DESC == <<"D", "E", "S", "C">>

RECURSIVE Spaces(_)
Spaces(n) == IF n = 0 THEN <<>> ELSE <<" ">> \o Spaces(n - 1)

\* String.prototype.split(sep) for a one-character separator:
\* "".split(",") is [""], "a,".split(",") is ["a", ""]
RECURSIVE SplitFrom(_, _, _)
SplitFrom(s, sep, acc) ==
    IF s = <<>> THEN <<acc>>
    ELSE IF Head(s) = sep THEN <<acc>> \o SplitFrom(Tail(s), sep, <<>>)
    ELSE SplitFrom(Tail(s), sep, Append(acc, Head(s)))

split(s, sep) == SplitFrom(s, sep, <<>>)

\* Array.prototype.join(sep)
RECURSIVE join(_, _)
join(parts, sep) ==
    IF parts = <<>> THEN <<>>
    ELSE IF Len(parts) = 1 THEN parts[1]
    ELSE parts[1] \o sep \o join(Tail(parts), sep)

RECURSIVE TrimStart(_)
TrimStart(s) ==
    IF s # <<>> /\ Head(s) = " " THEN TrimStart(Tail(s)) ELSE s

RECURSIVE TrimEnd(_)
TrimEnd(s) ==
    IF s # <<>> /\ s[Len(s)] = " " THEN TrimEnd(SubSeq(s, 1, Len(s) - 1)) ELSE s

\* String.prototype.trim
trim(s) == TrimEnd(TrimStart(s))

\* .filter(Boolean) on an array of strings drops the empty ones
filterBoolean(parts) == SelectSeq(parts, LAMBDA p : p # <<>>)

UpperOf ==
    [c \in {"a", "b", "c", "d", "e", "s", "z"} |->
        CASE c = "a" -> "A" [] c = "b" -> "B" [] c = "c" -> "C"
          [] c = "d" -> "D" [] c = "e" -> "E" [] c = "s" -> "S"
          [] c = "z" -> "Z"]

\* String.prototype.toUpperCase
toUpperCase(s) ==
    [i \in 1..Len(s) |-> IF s[i] \in DOMAIN UpperOf THEN UpperOf[s[i]] ELSE s[i]]

Digits == <<"0", "1", "2", "3", "4", "5", "6", "7", "8", "9">>

IsDigit(c) == \E d \in 1..10 : Digits[d] = c

DigitVal(c) == (CHOOSE d \in 1..10 : Digits[d] = c) - 1

RECURSIVE DigitsVal(_)
DigitsVal(s) ==
    IF s = <<>> THEN 0
    ELSE 10 * DigitsVal(SubSeq(s, 1, Len(s) - 1)) + DigitVal(s[Len(s)])

AllDigits(s) == s # <<>> /\ \A i \in 1..Len(s) : IsDigit(s[i])

\* Number(string): surrounding white space is dropped, the empty string is 0,
\* an optionally signed run of decimal digits is that integer, and any other
\* text over the characters of the model is NaN
Number(s) ==
    LET t == trim(s) IN
    IF t = <<>> THEN Num(0)
    ELSE IF AllDigits(t) THEN Num(DigitsVal(t))
    ELSE IF Head(t) = "-" /\ AllDigits(Tail(t)) THEN Num(0 - DigitsVal(Tail(t)))
    ELSE IF Head(t) = "+" /\ AllDigits(Tail(t)) THEN Num(DigitsVal(Tail(t)))
    ELSE NaN

\* the decimal text of an integer, as CONCAT renders a numeric column
RECURSIVE NatText(_)
NatText(n) ==
    IF n < 10 THEN <<Digits[n + 1]>> ELSE NatText(n \div 10) \o <<Digits[(n % 10) + 1]>>

IntText(n) == IF n < 0 THEN <<"-">> \o NatText(0 - n) ELSE NatText(n)

---------------------------------------------------------------------------
(* parseSortString *)

\* parseSortPart keeping the direction token as written (no toUpperCase)
parseSortPartAsWritten(part) ==
    LET tokens == filterBoolean(split(trim(part), " ")) IN
    [field |-> IF Len(tokens) >= 1 THEN Str(tokens[1]) ELSE Undefined,
     order |-> IF Len(tokens) >= 2 THEN tokens[2] ELSE ASC]

\* const [field, order = 'ASC'] = part.trim().split(' ').filter(Boolean);
\* return { field, order: order.toUpperCase() }
parseSortPart(part) ==
    LET tokens == filterBoolean(split(trim(part), " ")) IN
    [field |-> IF Len(tokens) >= 1 THEN Str(tokens[1]) ELSE Undefined,
     order |-> toUpperCase(IF Len(tokens) >= 2 THEN tokens[2] ELSE ASC)]

parseSortString(str) ==
    LET parts == split(str, ",") IN
    [i \in 1..Len(parts) |-> parseSortPart(parts[i])]

---------------------------------------------------------------------------
(* parseCursor *)

\* a computed property key: obj[undefined] reads and writes the key "undefined"
propertyKey(f) ==
    IF f = Undefined THEN <<"u", "n", "d", "e", "f", "i", "n", "e", "d">> ELSE f.s

\* obj[key], undefined when the object has no such key
Get(obj, key) == IF key \in DOMAIN obj THEN obj[key] ELSE Undefined

\* obj[key] = value
Put(obj, key, value) ==
    [k \in DOMAIN obj \cup {key} |-> IF k = key THEN value ELSE obj[k]]

EmptyObject == [k \in {} |-> Undefined]

\* array[i] for a 0-based i, undefined past the end
At(array, i) == IF i + 1 \in 1..Len(array) THEN array[i + 1] ELSE Undefined

\* parseCursorLoop reading one segment too far (values[i + 1])
RECURSIVE parseCursorLoopShifted(_, _, _, _)
parseCursorLoopShifted(fields, values, i, result) ==
    IF i < Len(fields)
    THEN parseCursorLoopShifted(fields, values, i + 1,
                                Put(result, propertyKey(fields[i + 1].field),
                                    At(values, i + 1)))
    ELSE result

\* for (let i = 0; i < fields.length; i++) result[fields[i].field] = values[i];
RECURSIVE parseCursorLoop(_, _, _, _)
parseCursorLoop(fields, values, i, result) ==
    IF i < Len(fields)
    THEN parseCursorLoop(fields, values, i + 1,
                         Put(result, propertyKey(fields[i + 1].field), At(values, i)))
    ELSE result

parseCursor(fields, c) ==
    IF c.t = "number"
    THEN Put(EmptyObject, propertyKey(fields[1].field), c)
    ELSE LET segments == split(c.s, ":")
             values == [i \in 1..Len(segments) |-> Number(segments[i])]
         IN parseCursorLoop(fields, values, 0, EmptyObject)

---------------------------------------------------------------------------
(* getCursor *)

\* operatorAt with the direction of the field ignored
operatorAtAscending(order, j, i) == IF j < i THEN "=" ELSE ">"

\* let operator = j < i ? '=' : order === 'DESC' ? '<' : '>';
operatorAt(order, j, i) ==
    IF j < i THEN "=" ELSE IF order = DESC THEN "<" ELSE ">"

\* one comparison `field operator value` of the predicate
conditionPart(fields, cs, j, i) ==
    [field |-> fields[j + 1].field,
     operator |-> operatorAt(fields[j + 1].order, j, i),
     value |-> Get(cs, propertyKey(fields[j + 1].field))]

\* the inner loop: the comparisons of disjunct i, joined with AND
conditionParts(fields, cs, i) ==
    [j1 \in 1..(i + 1) |-> conditionPart(fields, cs, j1 - 1, i)]

\* the outer loop: one disjunct per sort field, joined with OR
conditions(fields, cs) ==
    [i1 \in 1..Len(fields) |-> conditionParts(fields, cs, i1 - 1)]

\* sortKey that is the first field alone whatever the number of sort fields
sortKeyFirstOnly(fields) ==
    [concat |-> FALSE,
     columns |-> [i \in 1..Len(fields) |-> fields[i].field]]

\* sortFields.length === 1 ? sortFields[0].field : CONCAT(f1, ':', f2, ...):
\* the expression is the list of the columns it reads, joined with ':' when
\* there is more than one
sortKey(fields) ==
    [concat |-> Len(fields) # 1,
     columns |-> [i \in 1..Len(fields) |-> fields[i].field]]

getCursor(str, c) ==
    LET fields == parseSortString(str)
        called == Truthy(c)
        cs == IF called THEN parseCursor(fields, c) ELSE EmptyObject
    IN [sortFields |-> fields,
        parsed |-> called,
        cursors |-> cs,
        where |-> IF called THEN [conditions |-> conditions(fields, cs)] ELSE Undefined,
        prop |-> sortKey(fields)]

---------------------------------------------------------------------------
(* The query layer: how the database reads the predicate and the sort key. *)

\* the numeric columns of the listing
FieldNames == {<<"a">>, <<"b">>}

Vals == 0..MaxVal

Rows == [FieldNames -> Vals]

\* `field operator value` on a row; a comparison whose column or parameter is
\* not a number is not true of any row
evalPart(part, row) ==
    /\ part.field.t = "string"
    /\ part.field.s \in FieldNames
    /\ part.value.t = "number"
    /\ CASE part.operator = "=" -> row[part.field.s] = part.value.n
         [] part.operator = "<" -> row[part.field.s] < part.value.n
         [] part.operator = ">" -> row[part.field.s] > part.value.n

\* ((p AND p ...) OR (p AND p ...) ...); an absent predicate filters nothing
evalWhere(w, row) ==
    \/ w = Undefined
    \/ /\ w # Undefined
       /\ \E i \in 1..Len(w.conditions) :
            \A j \in 1..Len(w.conditions[i]) : evalPart(w.conditions[i][j], row)

\* ORDER BY the sort specification: r1 comes strictly before r2
rowBefore(fields, r1, r2) ==
    \E i \in 1..Len(fields) :
        /\ \A j \in 1..(i - 1) : r1[fields[j].field.s] = r2[fields[j].field.s]
        /\ IF fields[i].order = DESC
           THEN r1[fields[i].field.s] > r2[fields[i].field.s]
           ELSE r1[fields[i].field.s] < r2[fields[i].field.s]

\* the rows of a set in ORDER BY order (the set has no two rows with one key)
orderBy(fields, rows) ==
    [k \in 1..Cardinality(rows) |->
        CHOOSE r \in rows :
            Cardinality({q \in rows : rowBefore(fields, q, r)}) = k - 1]

\* LIMIT n
take(rowSeq, n) == SubSeq(rowSeq, 1, IF Len(rowSeq) < n THEN Len(rowSeq) ELSE n)

\* the value of the sort-key expression on a row: the column itself, or the
\* text of the columns joined with ':'
sortKeyValue(p, row) ==
    IF p.concat
    THEN Str(join([i \in 1..Len(p.columns) |-> IntText(row[p.columns[i].s])], <<":">>))
    ELSE Num(row[p.columns[1].s])

---------------------------------------------------------------------------
(* The requests: sort strings and cursors a caller can pass. *)

\* the sequences of 1..n elements of S
SeqsUpTo(S, n) == UNION {[1..k -> S] : k \in 1..n}

\* A sort clause as written: a column name and a direction token (either may
\* be missing), with lead spaces before the name, gap spaces before the
\* direction token and trail spaces at the end.
Clause(name, dir, lead, gap, trail) ==
    [name |-> name, dir |-> dir, lead |-> lead, gap |-> gap, trail |-> trail]

renderClause(c) ==
    Spaces(c.lead) \o c.name
        \o (IF c.dir = <<>> THEN <<>> ELSE Spaces(c.gap) \o c.dir)
        \o Spaces(c.trail)

renderSort(cl) == join([i \in 1..Len(cl) |-> renderClause(cl[i])], <<",">>)

DirTokens ==
    {<<>>, ASC, DESC, <<"a", "s", "c">>, <<"d", "e", "s", "c">>, <<"D", "e", "s", "c">>}

\* "a", "a DESC": one column, written tightly, ascending by default
PlainClauses == {Clause(n, d, 0, 1, 0) : n \in FieldNames, d \in {<<>>, DESC}}

\* every way of writing a clause, the clause with no field name included
WrittenClauses ==
    {Clause(n, d, pad, 1 + pad, pad) : n \in FieldNames, d \in DirTokens, pad \in {0, 1}}
        \cup {Clause(<<>>, <<>>, pad, 1, 0) : pad \in {0, 1}}

PlainSorts == SeqsUpTo(PlainClauses, MaxFields)

WrittenSorts == SeqsUpTo(WrittenClauses, MaxFields)

\* "createdAt DESC, id ASC"
ExampleSort ==
    <<Clause(<<"c", "r", "e", "a", "t", "e", "d", "A", "t">>, DESC, 0, 1, 0),
      Clause(<<"i", "d">>, ASC, 1, 1, 0)>>

\* the segments of a string cursor: a value, nothing, or text that is no number
Segments == {<<>>, <<"z">>} \cup {IntText(v) : v \in Vals}

StringCursors ==
    {Str(join(segs, <<":">>)) : segs \in SeqsUpTo(Segments, MaxFields + 1)}

NumberCursors == {Num(v) : v \in Vals}

\* the cursors of the documented examples: 42 and "5:10"
ExampleCursors == {Num(42), Str(<<"5", ":", "1", "0">>)}

Cursors == {Undefined} \cup NumberCursors \cup StringCursors \cup ExampleCursors

\* no cursor, a number, and a string with one value per field of a two-field sort
BasicCursors == {Undefined, Num(1), Str(<<"1", ":", "2">>)}

---------------------------------------------------------------------------
(* One call of getCursor. *)

NoResult ==
    /\ sortFields = <<>>
    /\ cursors = EmptyObject
    /\ where = Undefined
    /\ prop = Undefined

\* every plain sort with every cursor, and every way of writing a sort with
\* the basic cursors
Init ==
    /\ clauses \in WrittenSorts \cup {ExampleSort}
    /\ cursor \in Cursors
    /\ clauses \in PlainSorts \/ cursor \in BasicCursors
    /\ sortString = renderSort(clauses)
    /\ NoResult
    /\ pc = "call"
    /\ table = {}
    /\ limit = 1
    /\ visited = <<>>
    /\ OffsetIdle
    /\ NavIdle
    /\ MuteIdle

\* const { where, prop } = getCursor(sortString, cursor)
Returned(r) ==
    /\ sortFields' = r.sortFields
    /\ cursors' = r.cursors
    /\ where' = r.where
    /\ prop' = r.prop

GetCursorCall ==
    /\ pc = "call"
    /\ Returned(getCursor(sortString, cursor))
    /\ pc' = "return"
    /\ UNCHANGED <<clauses, sortString, cursor, table, limit, visited>>
    /\ UNCHANGED <<offsetVars, navVars, muteVars>>

Next == GetCursorCall

Spec == Init /\ [][Next]_vars

---------------------------------------------------------------------------
(* A caller paging through a table: each page is the first `limit` rows, in  *)
(* ORDER BY order, that the predicate of getCursor selects, and the next     *)
(* cursor is the sort-key value of the last row of the page.                 *)

keyOf(fields, row) == [i \in 1..Len(fields) |-> row[fields[i].field.s]]

\* no two rows agree on all the sort fields
UniqueKeys(fields, rows) ==
    \A r1, r2 \in rows : keyOf(fields, r1) = keyOf(fields, r2) => r1 = r2

Tables == {t \in SUBSET Rows : Cardinality(t) <= MaxRows}

InitPaging ==
    /\ clauses \in PlainSorts
    /\ sortString = renderSort(clauses)
    /\ cursor = Undefined
    /\ table \in Tables
    /\ UniqueKeys(parseSortString(sortString), table)
    /\ limit \in 1..MaxLimit
    /\ visited = <<>>
    /\ NoResult
    /\ pc = "page"
    /\ OffsetIdle
    /\ NavIdle
    /\ MuteIdle

\* One page request.  A caller that has been handed more rows than the table
\* holds stops asking.
FetchPage ==
    /\ pc = "page"
    /\ Len(visited) <= Cardinality(table)
    /\ LET r == getCursor(sortString, cursor)
           selected == {row \in table : evalWhere(r.where, row)}
           rows == take(orderBy(r.sortFields, selected), limit)
       IN /\ Returned(r)
          /\ IF rows = <<>>
             THEN /\ pc' = "exhausted"
                  /\ UNCHANGED <<cursor, visited>>
             ELSE /\ pc' = "page"
                  /\ visited' = visited \o rows
                  /\ cursor' = sortKeyValue(r.prop, rows[Len(rows)])
    /\ UNCHANGED <<clauses, sortString, table, limit>>
    /\ UNCHANGED <<offsetVars, navVars, muteVars>>

NextPaging == FetchPage

SpecPaging == InitPaging /\ [][NextPaging]_vars

---------------------------------------------------------------------------
(* What the claims speak of: the sort specification a sort string is       *)
(* written to mean, and the values a cursor is written to carry.           *)

DescSpellings == {DESC, <<"d", "e", "s", "c">>, <<"D", "e", "s", "c">>}

\* the fields of the request's sort, by name
NamesOf(cl) == [i \in 1..Len(cl) |-> cl[i].name]

\* TRUE for the fields of the request's sort that are written descending
DescendingOf(cl) == [i \in 1..Len(cl) |-> cl[i].dir \in DescSpellings]

\* every clause names a column of the listing
NamesColumns(cl) == \A i \in 1..Len(cl) : cl[i].name \in FieldNames

\* the ':'-separated segments of a string cursor
SegmentsOf(c) == split(c.s, ":")

\* the cursor carries one numeric value for each of n sort fields: a number
\* for one field, or a string of n segments of decimal digits
CarriesValues(c, n) ==
    \/ c.t = "number" /\ n = 1
    \/ /\ c.t = "string"
       /\ Len(SegmentsOf(c)) = n
       /\ \A i \in 1..n : AllDigits(SegmentsOf(c)[i])

\* the values such a cursor carries, in field order
ValuesOf(c) ==
    IF c.t = "number" THEN <<c.n>>
    ELSE [i \in 1..Len(SegmentsOf(c)) |-> DigitsVal(SegmentsOf(c)[i])]

\* a field named twice is given the same value both times
OneValuePerField(names, values) ==
    \A i, j \in 1..Len(names) : names[i] = names[j] => values[i] = values[j]

\* the row sorts strictly after the position `values` under the sort
\* (first field primary, later fields breaking ties, each in its direction)
StrictlyAfter(names, desc, values, row) ==
    \E i \in 1..Len(names) :
        /\ \A j \in 1..(i - 1) : row[names[j]] = values[j]
        /\ IF desc[i] THEN row[names[i]] < values[i] ELSE row[names[i]] > values[i]

\* getCursor has returned for a sort over columns and a cursor that carries
\* one numeric value per sort field
PositionedCall ==
    /\ pc = "return"
    /\ NamesColumns(clauses)
    /\ CarriesValues(cursor, Len(clauses))
    /\ OneValuePerField(NamesOf(clauses), ValuesOf(cursor))

---------------------------------------------------------------------------
(* The claims. *)

\* C1: for every sort specification, every cursor carrying one numeric value
\* per sort field and every row, the predicate getCursor returns matches the
\* row if and only if the row sorts strictly after the cursor position.
C1_SelectsStrictlyAfter ==
    PositionedCall =>
        \A row \in Rows :
            evalWhere(where, row) <=>
                StrictlyAfter(NamesOf(clauses), DescendingOf(clauses), ValuesOf(cursor), row)

\* C3: for a single-field sort and a numeric cursor value v, the predicate
\* selects exactly the rows with field > v when the field is ascending and
\* exactly the rows with field < v when it is descending.
C3_SingleFieldComparison ==
    (PositionedCall /\ Len(clauses) = 1) =>
        \A row \in Rows :
            evalWhere(where, row) <=>
                IF DescendingOf(clauses)[1]
                THEN row[clauses[1].name] < ValuesOf(cursor)[1]
                ELSE row[clauses[1].name] > ValuesOf(cursor)[1]

\* the last position of the sort that names the same field as position j
lastNaming(names, j) ==
    CHOOSE k \in j..Len(names) :
        /\ names[k] = names[j]
        /\ \A m \in (k + 1)..Len(names) : names[m] # names[j]

\* the value the cursor gives the field at position j (a later value for the
\* same field name replaces an earlier one)
cursorValue(names, values, j) == Num(values[lastNaming(names, j)])

\* getCursor has built a predicate for a sort of n named fields and a cursor
\* of n numeric values
BuiltForValues ==
    /\ pc = "return"
    /\ where # Undefined
    /\ \A i \in 1..Len(clauses) : clauses[i].name # <<>>
    /\ CarriesValues(cursor, Len(clauses))

\* C4: for a sort of n fields and a cursor of n values the predicate is the
\* OR of exactly n disjuncts; disjunct i is the AND of field_j = cursor_j for
\* every j < i followed by one strict comparison on field_i, > for an
\* ascending field and < for a descending one; [a ASC, b DESC] with (5, 10)
\* gives (a > 5) OR (a = 5 AND b < 10).
C4_DisjunctShape ==
    BuiltForValues =>
        LET names == NamesOf(clauses)
            desc == DescendingOf(clauses)
            values == ValuesOf(cursor)
            n == Len(clauses)
        IN /\ Len(where.conditions) = n
           /\ \A i \in 1..n :
                /\ Len(where.conditions[i]) = i
                /\ \A j \in 1..(i - 1) :
                     where.conditions[i][j] =
                         [field |-> Str(names[j]), operator |-> "=",
                          value |-> cursorValue(names, values, j)]
                /\ where.conditions[i][i] =
                     [field |-> Str(names[i]),
                      operator |-> IF desc[i] THEN "<" ELSE ">",
                      value |-> cursorValue(names, values, i)]
           /\ (/\ names = <<<<"a">>, <<"b">>>>
               /\ desc = <<FALSE, TRUE>>
               /\ values = <<5, 10>>) =>
                where.conditions =
                    <<<<[field |-> Str(<<"a">>), operator |-> ">", value |-> Num(5)]>>,
                      <<[field |-> Str(<<"a">>), operator |-> "=", value |-> Num(5)],
                        [field |-> Str(<<"b">>), operator |-> "<", value |-> Num(10)]>>>>

\* the documented example: [a ASC, b DESC] with cursor "5:10"
C4_Witness ==
    /\ BuiltForValues
    /\ NamesOf(clauses) = <<<<"a">>, <<"b">>>>
    /\ DescendingOf(clauses) = <<FALSE, TRUE>>
    /\ ValuesOf(cursor) = <<5, 10>>

\* C5: with no cursor getCursor returns no predicate and still returns the
\* sort-key expression; with a cursor it returns a predicate.
C5_PredicateIffCursor ==
    pc = "return" =>
        /\ prop # Undefined
        /\ cursor = Undefined => where = Undefined
        /\ cursor # Undefined => where # Undefined

\* the fields the predicate refers to
ReferencedFields(w) ==
    UNION {{w.conditions[i][j].field : j \in 1..Len(w.conditions[i])} :
              i \in 1..Len(w.conditions)}

\* C6: a numeric cursor with a sort of several fields is mapped to the first
\* field only, and the predicate refers to no field other than the first.
C6_NumericCursorFirstFieldOnly ==
    (pc = "return" /\ cursor.t = "number" /\ Len(sortFields) > 1 /\ where # Undefined) =>
        /\ DOMAIN cursors = {propertyKey(sortFields[1].field)}
        /\ ReferencedFields(where) \subseteq {sortFields[1].field}

\* getCursor has decoded a string cursor
DecodedString == pc = "return" /\ cursor.t = "string" /\ Truthy(cursor)

\* getCursor has decoded a numeric cursor
DecodedNumber == pc = "return" /\ cursor.t = "number" /\ Truthy(cursor)

\* C7: a string cursor is split on ':' and its i-th segment, parsed as a
\* number, is mapped to the i-th sort field in declared order ("5:10" against
\* [a, b] gives {a: 5, b: 10}; a later segment for a field name given twice
\* replaces the earlier one); a numeric cursor is mapped to the first field
\* only (42 against [a, b] gives {a: 42}, b undefined).
C7_PositionalDecoding ==
    /\ DecodedString =>
         LET names == NamesOf(clauses)
             segs == SegmentsOf(cursor)
         IN /\ \A i \in 1..Len(names) :
                 (names[i] # <<>> /\ lastNaming(names, i) <= Len(segs)) =>
                     /\ names[i] \in DOMAIN cursors
                     /\ cursors[names[i]] = Number(segs[lastNaming(names, i)])
            /\ (cursor.s = <<"5", ":", "1", "0">> /\ names = <<<<"a">>, <<"b">>>>) =>
                 cursors = [k \in {<<"a">>, <<"b">>} |->
                               IF k = <<"a">> THEN Num(5) ELSE Num(10)]
    /\ DecodedNumber =>
         /\ clauses[1].name # <<>> => cursors = [k \in {clauses[1].name} |-> cursor]
         /\ (cursor.n = 42 /\ NamesOf(clauses) = <<<<"a">>, <<"b">>>>) =>
              /\ cursors = [k \in {<<"a">>} |-> Num(42)]
              /\ Get(cursors, <<"b">>) = Undefined

\* "5:10" has been decoded against [a, b]
C7_Witness ==
    /\ DecodedString
    /\ cursor.s = <<"5", ":", "1", "0">>
    /\ NamesOf(clauses) = <<<<"a">>, <<"b">>>>
    /\ cursors[<<"b">>] = Num(10)

\* the cursor is a string with a segment that is no number
HasNonNumericSegment(c) ==
    /\ c.t = "string"
    /\ \E i \in 1..Len(SegmentsOf(c)) : Number(SegmentsOf(c)[i]) = NaN

\* C8: decoding a string cursor with a non-numeric segment fails with
\* InvalidCursor: getCursor does not return, and no predicate is produced.
C8_InvalidCursorRejected ==
    HasNonNumericSegment(cursor) => (pc # "return" /\ where = Undefined)

\* the sort string has a clause with no field name
HasEmptyClause(str) ==
    \E i \in 1..Len(split(str, ",")) : trim(split(str, ",")[i]) = <<>>

\* C9: parsing a sort string with a clause that is empty after trimming fails
\* with InvalidSortSpec: getCursor does not return, and no SortField without
\* a field name is ever returned.
C9_InvalidSortSpecRejected ==
    /\ HasEmptyClause(sortString) => pc # "return"
    /\ \A i \in 1..Len(sortFields) : sortFields[i].field # Undefined

\* C10: parsing a sort string returns one SortField per comma-separated
\* clause, in the order of the clauses, with the clause's field name, with
\* order ASC when the clause has no direction token, and with the direction
\* token matched whatever its case ("createdAt DESC, id ASC" gives
\* [createdAt DESC, id ASC]).
C10_SortFieldPerClause ==
    pc = "return" =>
        /\ Len(sortFields) = Len(clauses)
        /\ \A i \in 1..Len(clauses) :
             clauses[i].name # <<>> =>
                 /\ sortFields[i].field = Str(clauses[i].name)
                 /\ sortFields[i].order =
                        IF clauses[i].dir \in DescSpellings THEN DESC ELSE ASC
        /\ clauses = ExampleSort =>
             sortFields =
                 <<[field |-> Str(<<"c", "r", "e", "a", "t", "e", "d", "A", "t">>),
                    order |-> DESC],
                   [field |-> Str(<<"i", "d">>), order |-> ASC]>>

\* a padded two-clause sort with a lower-case direction token and a clause
\* without one has been parsed
C10_Witness ==
    /\ pc = "return"
    /\ Len(clauses) = 2
    /\ clauses[1].dir = <<"d", "e", "s", "c">>
    /\ clauses[1].lead = 1
    /\ clauses[2].dir = <<>>
    /\ clauses[2].name # <<>>
    /\ sortFields[1].order = DESC
    /\ sortFields[2].order = ASC

\* the rows handed out so far
VisitedRows == {visited[i] : i \in 1..Len(visited)}

\* C2: paging from no cursor, each next cursor read off the last row of the
\* page, visits every row exactly once until the rows are exhausted, when the
\* sort fields together are unique per row: no row is handed out twice, and
\* when the pages run out every row has been handed out.
C2_EveryRowExactlyOnce ==
    /\ \A i, j \in 1..Len(visited) : i # j => visited[i] # visited[j]
    /\ pc = "exhausted" => VisitedRows = table

---------------------------------------------------------------------------
(* The cursor round trip: the sort-key expression of getCursor is read off *)
(* a row, and the value is decoded by parseCursor against the same fields. *)

InitRoundTrip ==
    /\ clauses \in PlainSorts
    /\ sortString = renderSort(clauses)
    /\ cursor = Undefined
    /\ table \in {{row} : row \in Rows}
    /\ limit = 1
    /\ visited = <<>>
    /\ NoResult
    /\ pc = "encode"
    /\ OffsetIdle
    /\ NavIdle
    /\ MuteIdle

\* the value of getCursor's prop on the row becomes the cursor
EncodeCursor ==
    /\ pc = "encode"
    /\ LET r == getCursor(sortString, cursor)
           row == CHOOSE x \in table : TRUE
       IN /\ Returned(r)
          /\ visited' = <<row>>
          /\ cursor' = sortKeyValue(r.prop, row)
    /\ pc' = "decode"
    /\ UNCHANGED <<clauses, sortString, table, limit>>
    /\ UNCHANGED <<offsetVars, navVars, muteVars>>

\* const cursors = parseCursor(sortFields, cursor)
DecodeCursor ==
    /\ pc = "decode"
    /\ cursors' = parseCursor(sortFields, cursor)
    /\ pc' = "decoded"
    /\ UNCHANGED <<clauses, sortString, cursor, sortFields, where, prop, table,
                   limit, visited>>
    /\ UNCHANGED <<offsetVars, navVars, muteVars>>

NextRoundTrip == EncodeCursor \/ DecodeCursor

SpecRoundTrip == InitRoundTrip /\ [][NextRoundTrip]_vars

\* C11: the value of the sort-key expression on a row (the field itself for
\* one field, the field values joined with ':' for several), decoded as a
\* cursor against the same sort fields, is exactly the mapping from each sort
\* field to the row's value of that field.
C11_CursorRoundTrip ==
    pc = "decoded" =>
        cursors = [k \in {clauses[i].name : i \in 1..Len(clauses)} |->
                      Num(visited[1][k])]

\* a row with two different values has gone through a two-field round trip
C11_Witness ==
    /\ pc = "decoded"
    /\ Len(clauses) = 2
    /\ clauses[1].name # clauses[2].name
    /\ visited[1][clauses[1].name] # visited[1][clauses[2].name]
    /\ DOMAIN cursors = FieldNames

---------------------------------------------------------------------------
(* Offset pagination: getPagination, getPagingData, getPagedData and       *)
(* getPaginationLinks.                                                      *)

\* page numbers range over -1..MaxPage
MaxPage == 3
\* item counts range over 0..MaxCount
MaxCount == 5

\* getPagination with skip = page * take
getPaginationFromPage(lim, pg) ==
    LET tk == IF lim.n > 0 THEN lim ELSE Undefined
    IN [take |-> tk,
        skip |-> IF Truthy(pg) /\ Truthy(tk) THEN Num(pg.n * tk.n) ELSE Undefined]

\* const take = limit > 0 ? limit : undefined;
\* const skip = page && take ? (page - 1) * take : undefined;
getPagination(lim, pg) ==
    LET tk == IF lim.n > 0 THEN lim ELSE Undefined
    IN [take |-> tk,
        skip |-> IF Truthy(pg) /\ Truthy(tk) THEN Num((pg.n - 1) * tk.n) ELSE Undefined]

\* Math.floor(a / b) for integers a and b # 0
mathFloor(a, b) ==
    IF b < 0
    THEN (IF a > 0 THEN 0 - (((a - b) - 1) \div (0 - b)) ELSE (0 - a) \div (0 - b))
    ELSE (IF a < 0 THEN 0 - ((((0 - a) + b) - 1) \div b) ELSE a \div b)

\* Math.ceil(a / b) for integers a and b # 0
mathCeil(a, b) ==
    IF b < 0
    THEN (IF a > 0 THEN 0 - (a \div (0 - b)) ELSE (((0 - a) - b) - 1) \div (0 - b))
    ELSE (IF a < 0 THEN 0 - ((0 - a) \div b) ELSE ((a + b) - 1) \div b)

\* a ?? b
orElse(a, b) == IF a = Undefined THEN b ELSE a

\* const { count: totalItems = 0, items } = data;
\* const currentPage = page ?? 1;
\* const pageSize = limit ?? totalItems;
\* const totalPages = pageSize && totalItems ? Math.ceil(totalItems / pageSize) : 1;
getPagingData(d, lim, pg) ==
    LET totalItems == orElse(d.count, Num(0))
        pageSize == orElse(lim, totalItems)
    IN [items |-> d.items,
        totalItems |-> totalItems,
        currentPage |-> orElse(pg, Num(1)),
        pageSize |-> pageSize,
        totalPages |-> IF Truthy(pageSize) /\ Truthy(totalItems)
                       THEN Num(mathCeil(totalItems.n, pageSize.n))
                       ELSE Num(1)]

\* const take = !page ? undefined : limit;
\* const skip = !page ? undefined : (page - 1) * limit;
\* const { items, count } = await fn({ skip, take, ...rest });
\* the skip and take passed to fn, and the record returned; fn returns d
getPagedData(pg, lim, d) ==
    LET tk == IF ~Truthy(pg) THEN Undefined ELSE lim
        sk == IF ~Truthy(pg) THEN Undefined ELSE Num((pg.n - 1) * lim.n)
    IN [skip |-> sk,
        take |-> tk,
        currentPage |-> pg,
        pageSize |-> tk,
        totalPages |-> IF Truthy(tk) /\ Truthy(d.count)
                       THEN Num(mathCeil(d.count.n, tk.n))
                       ELSE Num(1),
        totalItems |-> d.count,
        items |-> d.items]

\* the text a query-string value is written as
valueText(v) == IF v.t = "number" THEN IntText(v.n) ELSE v.s

\* QS.stringify(obj), as the parameters the string carries: each key of the
\* object that has a value, with the text of the value
QSstringify(obj) ==
    [k \in {x \in DOMAIN obj : obj[x] # Undefined} |-> valueText(obj[k])]

\* new URL(req.url ?? '/', ...): origin and pathname of the request
baseUrl == [origin |-> "origin", pathname |-> "pathname"]

\* `${baseUrl.origin}${baseUrl.pathname}?${queryString}`
linkTo(queryString) ==
    [origin |-> baseUrl.origin, pathname |-> baseUrl.pathname, search |-> queryString]

\* getPaginationLinks offering a previous page whenever currentPage > 1
getPaginationLinksAnyPrev(q, totalPages, currentPage) ==
    LET hasNextPage == currentPage.n < totalPages.n
        hasPrevPage == currentPage.n > 1
    IN [nextPage |-> IF hasNextPage
                     THEN linkTo(QSstringify(Put(q, "page", Num(currentPage.n + 1))))
                     ELSE Undefined,
        prevPage |-> IF hasPrevPage
                     THEN linkTo(QSstringify(Put(q, "page", Num(currentPage.n - 1))))
                     ELSE Undefined,
        baseUrl |-> baseUrl]

\* getPaginationLinks({ req, totalPages, currentPage }) for req.query = q
getPaginationLinks(q, totalPages, currentPage) ==
    LET hasNextPage == currentPage.n < totalPages.n
        hasPrevPage == totalPages.n > 1 /\ currentPage.n > 1
    IN [nextPage |-> IF hasNextPage
                     THEN linkTo(QSstringify(Put(q, "page", Num(currentPage.n + 1))))
                     ELSE Undefined,
        prevPage |-> IF hasPrevPage
                     THEN linkTo(QSstringify(Put(q, "page", Num(currentPage.n - 1))))
                     ELSE Undefined,
        baseUrl |-> baseUrl]

(* The requests. *)

LimitInputs == {Undefined} \cup {Num(n) : n \in (0 - 1)..MaxLimit}

PageInputs == {Undefined} \cup {Num(n) : n \in (0 - 1)..MaxPage}

CountInputs == {Undefined} \cup {Num(n) : n \in 0..MaxCount}

\* limit, page and count of the documented examples: getPagination(20, 3),
\* getPagination(0, 3) and getPagingData({count: 95}, 20, 2)
ExampleRequests == {<<Num(20), Num(3), Num(95)>>, <<Num(20), Num(2), Num(95)>>}

RequestInputs == (LimitInputs \X PageInputs \X CountInputs) \cup ExampleRequests

QueryValues ==
    [k \in {"page", "limit", "tag"} |->
        CASE k = "page" -> Str(<<"1">>) [] k = "limit" -> Str(<<"2">>) [] k = "tag" -> Str(<<"z">>)]

\* req.query: any of the parameters page, limit and tag
QueryInputs == {[k \in K |-> QueryValues[k]] : K \in SUBSET DOMAIN QueryValues}

InitOffset ==
    /\ \E r \in RequestInputs :
         /\ limit = r[1]
         /\ page = r[2]
         /\ data \in {[count |-> r[3], items |-> it] : it \in {<<>>, <<"x", "y">>}}
    /\ query \in QueryInputs
    /\ pagination = NotCalled
    /\ pagingData = NotCalled
    /\ pagedData = NotCalled
    /\ links = NotCalled
    /\ pc = "offset"
    /\ clauses = <<>>
    /\ sortString = <<>>
    /\ cursor = Undefined
    /\ NoResult
    /\ table = {}
    /\ visited = <<>>
    /\ NavIdle
    /\ MuteIdle

OffsetFrame ==
    /\ UNCHANGED <<keysetVars, pc, limit, page, data, query>>
    /\ UNCHANGED <<navVars, muteVars>>

\* const { take, skip } = getPagination(limit, page)
GetPagination ==
    /\ pc = "offset"
    /\ pagination = NotCalled
    /\ limit # Undefined
    /\ pagination' = getPagination(limit, page)
    /\ UNCHANGED <<pagingData, pagedData, links>>
    /\ OffsetFrame

\* getPagingData(data, limit, page)
GetPagingData ==
    /\ pc = "offset"
    /\ pagingData = NotCalled
    /\ pagingData' = getPagingData(data, limit, page)
    /\ UNCHANGED <<pagination, pagedData, links>>
    /\ OffsetFrame

\* getPagedData({ page, limit }, fn), fn returning data
GetPagedData ==
    /\ pc = "offset"
    /\ pagedData = NotCalled
    /\ limit # Undefined
    /\ pagedData' = getPagedData(page, limit, data)
    /\ UNCHANGED <<pagination, pagingData, links>>
    /\ OffsetFrame

\* getPaginationLinks({ ...metadata, req }) with the metadata of getPagingData
GetPaginationLinks ==
    /\ pc = "offset"
    /\ pagingData # NotCalled
    /\ links = NotCalled
    /\ links' = getPaginationLinks(query, pagingData.totalPages, pagingData.currentPage)
    /\ UNCHANGED <<pagination, pagingData, pagedData>>
    /\ OffsetFrame

NextOffset == GetPagination \/ GetPagingData \/ GetPagedData \/ GetPaginationLinks

SpecOffset == InitOffset /\ [][NextOffset]_vars

\* n is positive
Positive(v) == v.t = "number" /\ v.n > 0

\* C12: getPagination returns take = limit when limit is positive and no take
\* otherwise, and skip = (page - 1) * take when page and take are both
\* positive; in every other case (page absent, zero or negative, or take
\* absent) skip is absent.
C12_TakeAndSkip ==
    pagination # NotCalled =>
        /\ pagination.take = (IF Positive(limit) THEN limit ELSE Undefined)
        /\ pagination.skip =
               (IF Positive(page) /\ Positive(pagination.take)
                THEN Num((page.n - 1) * pagination.take.n)
                ELSE Undefined)
        /\ (limit = Num(20) /\ page = Num(3)) =>
               pagination = [take |-> Num(20), skip |-> Num(40)]
        /\ (limit = Num(0) /\ page = Num(3)) =>
               pagination = [take |-> Undefined, skip |-> Undefined]

\* t is the least integer that is at least a / b
IsCeiling(t, a, b) ==
    IF b > 0 THEN t * b >= a /\ (t - 1) * b < a
    ELSE t * b <= a /\ (t - 1) * b > a

\* C13: getPagingData returns totalPages = ceil(totalItems / pageSize) when
\* pageSize and totalItems are both known and non-zero and totalPages = 1
\* otherwise (count 95 with limit 20 gives 5); items, totalItems and
\* currentPage are returned as given, currentPage defaulting to 1.
C13_TotalPages ==
    pagingData # NotCalled =>
        LET totalItems == IF data.count = Undefined THEN 0 ELSE data.count.n
            pageSize == IF limit = Undefined THEN totalItems ELSE limit.n
        IN /\ pagingData.totalPages.t = "number"
           /\ IF pageSize # 0 /\ totalItems # 0
              THEN IsCeiling(pagingData.totalPages.n, totalItems, pageSize)
              ELSE pagingData.totalPages.n = 1
           /\ (data.count = Num(95) /\ limit = Num(20)) => pagingData.totalPages = Num(5)
           /\ pagingData.items = data.items
           /\ data.count # Undefined => pagingData.totalItems = data.count
           /\ pagingData.currentPage = (IF page = Undefined THEN Num(1) ELSE page)

\* count 95 with limit 20 and page 2 has been given to getPagingData
C13_Witness ==
    /\ pagingData # NotCalled
    /\ data.count = Num(95)
    /\ limit = Num(20)
    /\ page = Num(2)
    /\ pagingData.totalPages = Num(5)

\* the item indexes [skip, skip + take) that page p of the request fetches
PageRange(p) ==
    LET g == getPagination(limit, Num(p))
    IN {i \in 0..(data.count.n - 1) : g.skip.n <= i /\ i < g.skip.n + g.take.n}

\* the offset helpers have been called for a positive limit and a count > 0
OffsetPaged ==
    /\ pagingData # NotCalled
    /\ pagination # NotCalled
    /\ Positive(limit)
    /\ Positive(data.count)

\* C15: for a positive limit and totalItems > 0, the index ranges
\* [skip, skip + take) that getPagination gives for the pages 1..totalPages
\* (totalPages from getPagingData) are pairwise disjoint and together cover
\* every item index 0..totalItems-1, and a page beyond totalPages has
\* skip >= totalItems.
C15_PagesPartition ==
    OffsetPaged =>
        LET totalPages == pagingData.totalPages.n
        IN /\ \A p, q \in 1..totalPages :
                p # q => PageRange(p) \cap PageRange(q) = {}
           /\ UNION {PageRange(p) : p \in 1..totalPages} = 0..(data.count.n - 1)
           /\ \A p \in 1..totalPages :
                /\ getPagination(limit, Num(p)).take = limit
                /\ getPagination(limit, Num(p)).skip.n >= 0
                /\ PageRange(p) # {}
           /\ \A p \in (totalPages + 1)..(totalPages + MaxPage) :
                getPagination(limit, Num(p)).skip.n >= data.count.n
           /\ (Positive(page) /\ page.n > totalPages) => pagination.skip.n >= data.count.n

\* five items in pages of two: three pages, the last one short
C15_Witness ==
    /\ OffsetPaged
    /\ limit = Num(2)
    /\ data.count = Num(5)
    /\ pagingData.totalPages = Num(3)
    /\ page = Num(3)
    /\ pagination.skip = Num(4)

\* getPagedData, getPagination and getPagingData have all been called
AllCalled ==
    /\ pagedData # NotCalled
    /\ pagination # NotCalled
    /\ pagingData # NotCalled

Agree ==
    /\ pagedData.skip = pagination.skip
    /\ pagedData.take = pagination.take
    /\ pagedData.totalPages = pagingData.totalPages

\* C16 as stated: for every limit and page, the skip and take getPagedData
\* passes to its fetch callback are those of getPagination(limit, page), and
\* the totalPages it returns is that of getPagingData for the same count,
\* limit and page.
C16_AgreesForEveryRequest == AllCalled => Agree

\* the parameters of the request other than page, as a link carries them
OtherParameters == {k \in DOMAIN query : k # "page"}

\* the link carries page = n and every other parameter of the request
LinkToPage(link, n) ==
    /\ link # Undefined
    /\ link.origin = baseUrl.origin
    /\ link.pathname = baseUrl.pathname
    /\ DOMAIN link.search = OtherParameters \cup {"page"}
    /\ link.search["page"] = IntText(n)
    /\ \A k \in OtherParameters : link.search[k] = query[k].s

\* C14: getPaginationLinks returns a nextPage link exactly when
\* currentPage < totalPages, carrying page = currentPage + 1, and a prevPage
\* link exactly when currentPage > 1 and totalPages > 1, carrying
\* page = currentPage - 1; every other query parameter of the request is kept
\* unchanged in both links.
C14_Links ==
    links # NotCalled =>
        LET currentPage == pagingData.currentPage.n
            totalPages == pagingData.totalPages.n
        IN /\ IF currentPage < totalPages
              THEN LinkToPage(links.nextPage, currentPage + 1)
              ELSE links.nextPage = Undefined
           /\ IF currentPage > 1 /\ totalPages > 1
              THEN LinkToPage(links.prevPage, currentPage - 1)
              ELSE links.prevPage = Undefined

\* a middle page of a request with other parameters: both links are returned
C14_Witness ==
    /\ links # NotCalled
    /\ pagingData.currentPage = Num(2)
    /\ pagingData.totalPages = Num(3)
    /\ DOMAIN query = {"page", "limit", "tag"}
    /\ links.nextPage # Undefined
    /\ links.prevPage # Undefined

----------------------------------------------------------------------------
(* Image-detail navigation (ImageDetailProvider): next() and previous()
   over the loaded images. An image is its id. *)

\* the loaded list holds at most MaxImages images
MaxImages == 3
\* at most MaxCalls calls of next()/previous() are followed
MaxCalls == 4

ImageIds == 1..(MaxImages + 1)

\* the loaded lists: images with distinct ids, in any order
ImageLists ==
    {s \in {<<>>} \cup SeqsUpTo(1..MaxImages, MaxImages) :
        \A i, j \in 1..Len(s) : i # j => s[i] # s[j]}

\* images.findIndex((x) => x.id === imageId), an index from 0, or -1
findIndex(imgs, id) ==
    IF \E i \in 1..Len(imgs) : imgs[i] = id
    THEN (CHOOSE i \in 1..Len(imgs) :
            imgs[i] = id /\ \A j \in 1..(i - 1) : imgs[j] # id) - 1
    ELSE 0 - 1

\* can navigate whenever some image is loaded
canNavigateNonEmpty(imgs, index) == Len(imgs) > 0

\* const canNavigate = index > -1 ? images.length > 1 : images.length > 0;
canNavigate(imgs, index) ==
    IF index > 0 - 1 THEN Len(imgs) > 1 ELSE Len(imgs) > 0

\* prevIndex > -1 ? images[prevIndex].id : images[images.length - 1].id
previousId(imgs, index) ==
    LET prevIndex == index - 1
    IN IF prevIndex > 0 - 1 THEN imgs[prevIndex + 1] ELSE imgs[Len(imgs)]

\* nextIndex < images.length ? images[nextIndex].id : images[0].id
nextId(imgs, index) ==
    LET nextIndex == index + 1
    IN IF nextIndex < Len(imgs) THEN imgs[nextIndex + 1] ELSE imgs[1]

InitNav ==
    /\ images \in ImageLists
    /\ imageId \in ImageIds
    /\ navLog = <<>>
    /\ pc = "nav"
    /\ clauses = <<>>
    /\ sortString = <<>>
    /\ cursor = Undefined
    /\ NoResult
    /\ table = {}
    /\ limit = 1
    /\ visited = <<>>
    /\ OffsetIdle
    /\ MuteIdle

\* one call of a handler: navigate(id) replaces the route's imageId by id
Call(op, id) ==
    LET index == findIndex(images, imageId)
        can == canNavigate(images, index)
    IN /\ pc = "nav"
       /\ Len(navLog) < MaxCalls
       /\ imageId' = (IF can THEN id ELSE imageId)
       /\ navLog' = Append(navLog,
                [op |-> op, from |-> imageId, navigated |-> can, to |-> imageId'])
       /\ UNCHANGED <<images, keysetVars, pc, limit, offsetVars, muteVars>>

\* const previous = () => { if (canNavigate) { ...; navigate(id); } }
PreviousImage ==
    LET index == findIndex(images, imageId)
    IN Call("previous", IF Len(images) > 0 THEN previousId(images, index) ELSE imageId)

\* const next = () => { if (canNavigate) { ...; navigate(id); } }
NextImage ==
    LET index == findIndex(images, imageId)
    IN Call("next", IF Len(images) > 0 THEN nextId(images, index) ELSE imageId)

NextNav == PreviousImage \/ NextImage

SpecNav == InitNav /\ [][NextNav]_vars

\* the ids of the loaded images
Loaded == {images[i] : i \in 1..Len(images)}

\* the place, from 1, of a loaded image in the list
PlaceOf(id) == CHOOSE i \in 1..Len(images) : images[i] = id

\* the image after / before a loaded image, going round the list
Following(id) == images[(PlaceOf(id) % Len(images)) + 1]
Preceding(id) == images[((PlaceOf(id) + Len(images) - 2) % Len(images)) + 1]

\* what one call did, by the claim's cases
CallAsClaimed(e) ==
    CASE Len(images) = 0 \/ (Len(images) = 1 /\ e.from \in Loaded) ->
            ~e.navigated /\ e.to = e.from
      [] e.from \in Loaded ->
            /\ e.navigated
            /\ e.to = (IF e.op = "next" THEN Following(e.from) ELSE Preceding(e.from))
      [] OTHER ->
            /\ e.navigated
            /\ e.to = (IF e.op = "next" THEN images[1] ELSE images[Len(images)])

\* C17: navigation is cyclic over the loaded list. With the current image in
\* a list of more than one image, next() goes to the following index
\* (last wraps to first) and previous() to the preceding one (first wraps to
\* last), so next() then previous() returns to the starting image; with the
\* current image not in the list, next() goes to the first image and
\* previous() to the last, and no call ever navigates back to the missing
\* image; with an empty list, or a one-image list holding the current image,
\* no call navigates.
C17_CyclicNavigation ==
    /\ \A i \in 1..Len(navLog) : CallAsClaimed(navLog[i])
    /\ \A i \in 1..(Len(navLog) - 1) :
         (/\ navLog[i].op = "next"
          /\ navLog[i + 1].op = "previous"
          /\ navLog[i].from \in Loaded
          /\ Len(images) > 1) => navLog[i + 1].to = navLog[i].from
    /\ \A i \in 1..Len(navLog) :
         navLog[i].navigated => navLog[i].to \in Loaded
    /\ (navLog # <<>> /\ navLog[1].from \notin Loaded) =>
         \A i \in 1..Len(navLog) :
            navLog[i].navigated => navLog[i].to # navLog[1].from
    /\ navLog # <<>> => imageId = navLog[Len(navLog)].to

\* from the last of three images next() wrapped to the first, and previous()
\* came back
C17_Witness ==
    /\ Len(images) = 3
    /\ Len(navLog) >= 2
    /\ navLog[1] = [op |-> "next", from |-> images[3], navigated |-> TRUE, to |-> images[1]]
    /\ navLog[2].op = "previous"
    /\ imageId = images[3]

----------------------------------------------------------------------------
(* Optimistic mute toggling on the user page. The cached creator record is
   its muted flag; a mutation is its position and the context onMutate
   returned. *)

\* at most MaxMutations toggle-mute mutations are issued
MaxMutations == 3

\* the context of a mutation whose onMutate has not returned
NoContext == [t |-> "undefined"]

InitMute ==
    /\ muted \in BOOLEAN
    /\ mutedBefore = muted
    /\ mutations = <<>>
    /\ pc = "mute"
    /\ clauses = <<>>
    /\ sortString = <<>>
    /\ cursor = Undefined
    /\ NoResult
    /\ table = {}
    /\ limit = 1
    /\ visited = <<>>
    /\ OffsetIdle
    /\ NavIdle

MuteFrame == UNCHANGED <<mutedBefore, keysetVars, pc, limit, offsetVars, navVars>>

\* handleToggleMute: if (user) toggleMuteMutation.mutate({ id: user.id });
\* onMutate starts and waits for getCreator.cancel
HandleToggleMute ==
    /\ pc = "mute"
    /\ Len(mutations) < MaxMutations
    /\ mutations' = Append(mutations, [at |-> "cancel", context |-> NoContext])
    /\ UNCHANGED muted
    /\ MuteFrame

\* onMutate after the await: prevUser = getData(); setData(muted: !prevUser.muted);
\* return { prevUser }
OnMutate(i) ==
    /\ mutations[i].at = "cancel"
    /\ muted' = ~muted
    /\ mutations' = [mutations EXCEPT ![i] = [at |-> "request", context |-> [prevUser |-> muted]]]
    /\ MuteFrame

\* onError: setData({ username }, context?.prevUser)
OnError(i) ==
    /\ mutations[i].at = "request"
    /\ muted' = mutations[i].context.prevUser
    /\ mutations' = [mutations EXCEPT ![i].at = "failed"]
    /\ MuteFrame

\* the request succeeds: no handler, the cache keeps the optimistic value
OnSuccess(i) ==
    /\ mutations[i].at = "request"
    /\ mutations' = [mutations EXCEPT ![i].at = "succeeded"]
    /\ UNCHANGED muted
    /\ MuteFrame

NextMute ==
    \/ HandleToggleMute
    \/ \E i \in 1..Len(mutations) : OnMutate(i)
    \/ \E i \in 1..Len(mutations) : OnError(i)
    \/ \E i \in 1..Len(mutations) : OnSuccess(i)

SpecMute == InitMute /\ [][NextMute]_vars

\* some toggles were issued, and every one of them has failed
AllFailed ==
    /\ mutations # <<>>
    /\ \A i \in 1..Len(mutations) : mutations[i].at = "failed"

\* C18: if every toggle-mute mutation issued fails, then once all have
\* settled the cached record's muted flag is what it was before the first
\* toggle, whatever the order of the onMutate and onError events.
C18_RollbackRestores == AllFailed => muted = mutedBefore

====
